---- MODULE Spec2Model ----
(***************************************************************************)
(* Deferred interrupt with a binary semaphore (src/src/main.cpp).          *)
(*                                                                         *)
(* Core 1 of the ESP32 runs three things: the Arduino setup/loop task      *)
(* (priority 1), the task printValues (priority 2, created by setup) and   *)
(* the hardware-timer ISR onTimer, which preempts both tasks and runs to   *)
(* completion before either of them continues.  The model follows the      *)
(* program line by line; the variables from nFired on are history         *)
(* variables that only record what the program did.                        *)
(***************************************************************************)
EXTENDS Integers, Sequences, FiniteSets, TLC

\* ---------------------------------------------------------------- bounds
\* timer alarm expiries explored after one boot
MaxFire == 3
\* analogRead returns a reading in 0..MaxAdc
MaxAdc == 2
\* boots explored (a boot whose semaphore creation fails restarts the chip)
MaxBoots == 2
\* raw values of val explored for the conversion: 0..MaxRaw
MaxRaw == 4096

\* ------------------------------------------------------ program constants
NULL == "NULL"
\* priority of the Arduino setup/loop task
LoopPriority == 1
\* variant: the task created at the priority of its creator
PrintPriorityEqual == LoopPriority
\* priority passed to xTaskCreatePinnedToCore
PrintPriority == 2
\* length of a binary semaphore's queue
SemLength == 1
\* variant: the semaphore is created already signalled
SemInitialCountFull == SemLength
\* messages in the queue xSemaphoreCreateBinary returns
SemInitialCount == 0
timer_max_count == 100000

VARIABLES
    pcSetup,      \* position of the setup/loop task
    pcPrint,      \* position of the task printValues ("none": not created)
    pcIsr,        \* position of onTimer ("idle": not executing)
    running,      \* the task that owns core 1: "idle", "loop" or "print"
    bin_sem,      \* NULL or the handle "sem"
    semCount,     \* messages waiting in the semaphore's queue
    val,          \* the sample slot
    volt,         \* printValues' local: a float, [m, e] meaning m * 2^-e
    led,          \* level of pinLed
    pinOutput,    \* pinLed configured as OUTPUT
    timer,        \* NULL or the handle "timer0" timerBegin returned
    isrAttached,  \* onTimer attached to the timer
    alarmValue,   \* alarm count written by timerAlarmWrite (0: none)
    alarmEnabled, \* timerAlarmEnable done
    pin_state,    \* onTimer's local
    task_woken,   \* onTimer's local
    serial,       \* lines written to Serial, oldest first
    nFired,       \* executions of onTimer started since boot
    nGives,       \* executions of onTimer that have done their give
    written,      \* the values onTimer stored in val, in order
    valBy,        \* index of the execution that wrote val (0: nobody)
    takeK,        \* nGives when the last xSemaphoreTake returned
    wokenBy,      \* execution whose give unblocked the waiting consumer
    gaveWaiter,   \* the give of the current execution found a waiter
    readBy,       \* valBy at the last read of val by printValues
    printedBy,    \* readBy of every line printValues printed
    nTakes,       \* returns of xSemaphoreTake
    prevTakeK,    \* takeK before the last return of xSemaphoreTake
    firedAtRead,  \* nFired at the last read of val by printValues
    yielded,      \* the last finished execution called portYIELD_FROM_ISR
    nSemFail,     \* times xSemaphoreCreateBinary returned NULL
    nReads,       \* reads of val by printValues
    keptUp,       \* every execution so far started with the consumer blocked
    boots,        \* boots so far
    restarts      \* calls of ESP.restart so far

vars == << pcSetup, pcPrint, pcIsr, running, bin_sem, semCount, val, volt, led,
           pinOutput, timer, isrAttached, alarmValue, alarmEnabled, pin_state,
           task_woken, serial, nFired, nGives, written, valBy, takeK, wokenBy,
           gaveWaiter, readBy, printedBy, nTakes, prevTakeK, firedAtRead,
           yielded, nSemFail, nReads, keptUp, boots, restarts >>

\* ------------------------------------------------- pure parts of the code
\* k with 2^23 <= raw * 3.3 * 2^k < 2^24, searched upwards from k (raw > 0)
RECURSIVE FloatScale(_, _)
FloatScale(raw, k) ==
    IF raw * 33 * 2^(k + 1) >= 10 * 2^24 THEN k ELSE FloatScale(raw, k + 1)

\* (float) val * 3.3 / 4096.0 stored in the float volt: the product and the
\* quotient are doubles, the division by 2^12 is exact, and the store rounds
\* to a 24-bit significand (to nearest; raw * 3.3 * 2^k is never half-way)
ToVolt(raw) ==
    IF raw = 0 THEN [m |-> 0, e |-> 0]
    ELSE LET k == FloatScale(raw, 0)
         IN  [m |-> (raw * 33 * 2^k + 5) \div 10, e |-> k + 12]

\* variant: the digits are cut off without the rounding term
ThousandthsTruncated(v) ==
    IF v.m = 0 THEN 0
    ELSE ((v.m * 125) \div 2^(v.e - 4)) \div 2

\* Print::printFloat(number, 3): adds 0.0005 and truncates to three
\* fractional digits; the result in thousandths, floor(v * 1000 + 1/2)
Thousandths(v) ==
    IF v.m = 0 THEN 0
    ELSE ((v.m * 125) \div 2^(v.e - 4) + 1) \div 2

\* the line Serial.println(volt, 3) writes
VoltLine(v) == [kind |-> "volt", th |-> Thousandths(v)]
TextLine(k) == [kind |-> k, th |-> 0]

\* variant: the level read is written back unchanged
NegateStuck(level) == level

\* !pin_state
Negate(level) == IF level = 0 THEN 1 ELSE 0

\* variant: a give that stores nothing
GiveLost(count) == count

\* variant: a counting semaphore, every give is stored
GiveCounting(count) == count + 1

\* xSemaphoreGiveFromISR on a queue holding count messages: the count grows
\* only while the queue is not full
GiveFromISR(count) == IF count < SemLength THEN count + 1 ELSE count

\* variant: a give that waits for room in the queue
GiveCompletesWhenRoom(count) == count < SemLength

\* xSemaphoreGiveFromISR never waits: on a full queue it returns errQUEUE_FULL
GiveCompletes(count) == TRUE

\* variant: a take with no block time, which returns with or without a message
TakeReadyAlways(count) == TRUE

\* variant: a take that leaves the message in the queue
AfterTakeKeep(count) == count

\* xSemaphoreTake returns once a message is waiting, and removes it
TakeReady(count) == count > 0
AfterTake(count) == count - 1

Priority(task) ==
    CASE task = "print" -> PrintPriority
      [] task = "loop"  -> LoopPriority
      [] OTHER          -> 0

\* the task printValues is ready to run (created and not blocked)
PrintReady(pc) == pc \in {"take", "woken", "read", "print"}

\* variant: the alarm is armed before the task is created
SetupNextArmFirst(pc, sem) ==
    CASE pc = "begin"       -> "delay"
      [] pc = "banner"      -> "createSem"
      [] pc = "createSem"   -> "checkSem"
      [] pc = "checkSem"    -> IF sem = NULL THEN "diag" ELSE "timerBegin"
      [] pc = "diag"        -> "restart"
      [] pc = "timerBegin"  -> "attach"
      [] pc = "attach"      -> "alarmWrite"
      [] pc = "alarmWrite"  -> "alarmEnable"
      [] pc = "alarmEnable" -> "createTask"
      [] pc = "createTask"  -> "pinMode"
      [] pc = "pinMode"     -> "loop"
      [] OTHER              -> pc

\* variant: the test of bin_sem at line 102 is missing
SetupNextNoCheck(pc, sem) ==
    CASE pc = "begin"       -> "delay"
      [] pc = "banner"      -> "createSem"
      [] pc = "createSem"   -> "checkSem"
      [] pc = "checkSem"    -> "createTask"
      [] pc = "diag"        -> "restart"
      [] pc = "createTask"  -> "pinMode"
      [] pc = "pinMode"     -> "timerBegin"
      [] pc = "timerBegin"  -> "attach"
      [] pc = "attach"      -> "alarmWrite"
      [] pc = "alarmWrite"  -> "alarmEnable"
      [] pc = "alarmEnable" -> "loop"
      [] OTHER              -> pc

\* order of the statements of setup (bin_sem decides the branch at line 102)
SetupNext(pc, sem) ==
    CASE pc = "begin"       -> "delay"
      [] pc = "banner"      -> "createSem"
      [] pc = "createSem"   -> "checkSem"
      [] pc = "checkSem"    -> IF sem = NULL THEN "diag" ELSE "createTask"
      [] pc = "diag"        -> "restart"
      [] pc = "createTask"  -> "pinMode"
      [] pc = "pinMode"     -> "timerBegin"
      [] pc = "timerBegin"  -> "attach"
      [] pc = "attach"      -> "alarmWrite"
      [] pc = "alarmWrite"  -> "alarmEnable"
      [] pc = "alarmEnable" -> "loop"
      [] OTHER              -> pc

\* variant: the semaphore is given before the sample is stored
IsrNextGiveFirst(pc) ==
    CASE pc = "idle"     -> "readPin"
      [] pc = "readPin"  -> "writePin"
      [] pc = "writePin" -> "give"
      [] pc = "give"     -> "sample"
      [] pc = "sample"   -> "exit"
      [] OTHER           -> "idle"

\* order of the statements of onTimer
IsrNext(pc) ==
    CASE pc = "idle"   -> "readPin"
      [] pc = "readPin"  -> "writePin"
      [] pc = "writePin" -> "sample"
      [] pc = "sample"   -> "give"
      [] pc = "give"     -> "exit"
      [] OTHER           -> "idle"

\* variant: the task leaves its loop after the first line
PrintNextOnce(pc) ==
    CASE pc = "take"  -> "read"
      [] pc = "read"  -> "print"
      [] OTHER        -> "done"

\* variant: val is read before the wait instead of after it
PrintNextReadFirst(pc) ==
    CASE pc = "take"  -> "print"
      [] pc = "print" -> "read"
      [] OTHER        -> "take"

\* order of the statements of printValues' loop
PrintNext(pc) ==
    CASE pc = "take"  -> "read"
      [] pc = "read"  -> "print"
      [] OTHER        -> "take"

\* ------------------------------------------------------------------ state
\* the setup/loop task is blocked only inside vTaskDelay
LoopReady(pc) == pc # "delay"

\* the ready task of highest priority on core 1
HighestReady(pcP, pcS) ==
    IF PrintReady(pcP) THEN "print"
    ELSE IF LoopReady(pcS) THEN "loop" ELSE "idle"

\* what a reset leaves: statics at their initialisers, no task, timer off
Init ==
    /\ pcSetup = "begin" /\ pcPrint = "none" /\ pcIsr = "idle"
    /\ running = "loop"
    /\ bin_sem = NULL /\ semCount = 0
    /\ val = 0 /\ volt = [m |-> 0, e |-> 0]
    /\ led = 0 /\ pinOutput = FALSE
    /\ timer = NULL /\ isrAttached = FALSE
    /\ alarmValue = 0 /\ alarmEnabled = FALSE
    /\ pin_state = 0 /\ task_woken = FALSE
    /\ serial = << >>
    /\ nFired = 0 /\ nGives = 0 /\ written = << >> /\ valBy = 0
    /\ takeK = 0 /\ wokenBy = 0 /\ gaveWaiter = FALSE /\ readBy = 0
    /\ printedBy = << >> /\ nTakes = 0 /\ keptUp = TRUE
    /\ prevTakeK = 0 /\ firedAtRead = 0 /\ yielded = FALSE /\ nSemFail = 0
    /\ nReads = 0
    /\ boots = 1 /\ restarts = 0

hardware == << led, pinOutput, timer, isrAttached, alarmValue, alarmEnabled >>
isrLocals == << pin_state, task_woken >>
semaphore == << bin_sem, semCount >>
audit == << prevTakeK, firedAtRead, yielded, nSemFail, nReads >>
history == << nFired, nGives, written, valBy, takeK, wokenBy, gaveWaiter,
              readBy, printedBy, nTakes, keptUp >>

\* ------------------------------------------------------- the setup/loop task
\* the task runs only while it owns the core and no ISR is executing
LoopRuns == running = "loop" /\ pcIsr = "idle"

\* line 91: Serial.begin; line 94: vTaskDelay blocks the task
SetupBegin ==
    /\ LoopRuns /\ pcSetup = "begin"
    /\ pcSetup' = SetupNext(pcSetup, bin_sem)
    /\ running' = HighestReady(pcPrint, pcSetup')
    /\ UNCHANGED << pcPrint, pcIsr, semaphore, val, volt, hardware, isrLocals,
                    serial, history, audit,
                    boots, restarts >>

\* the delay expires: the tick interrupt makes the task ready again
DelayExpires ==
    /\ pcSetup = "delay" /\ pcIsr = "idle"
    /\ pcSetup' = "banner"
    /\ running' = HighestReady(pcPrint, pcSetup')
    /\ UNCHANGED << pcPrint, pcIsr, semaphore, val, volt, hardware, isrLocals,
                    serial, history, audit,
                    boots, restarts >>

\* lines 95-96
SetupBanner ==
    /\ LoopRuns /\ pcSetup = "banner"
    /\ serial' = serial \o << TextLine("empty"), TextLine("banner") >>
    /\ pcSetup' = SetupNext(pcSetup, bin_sem)
    /\ UNCHANGED << pcPrint, pcIsr, running, semaphore, val, volt, hardware,
                    isrLocals, history, audit,
                    boots, restarts >>

\* line 99: xSemaphoreCreateBinary returns a handle to an empty semaphore, or
\* NULL when the heap is exhausted
SetupCreateSem ==
    /\ LoopRuns /\ pcSetup = "createSem"
    /\ \E h \in {"sem"} \cup (IF boots < MaxBoots THEN {NULL} ELSE {}) :
          /\ bin_sem' = h
          /\ nSemFail' = IF h = NULL THEN nSemFail + 1 ELSE nSemFail
    /\ semCount' = SemInitialCount
    /\ pcSetup' = SetupNext(pcSetup, bin_sem')
    /\ UNCHANGED << pcPrint, pcIsr, running, val, volt, hardware, isrLocals,
                    serial, history, prevTakeK, firedAtRead, yielded,
                    nReads, boots, restarts >>

\* line 102
SetupCheckSem ==
    /\ LoopRuns /\ pcSetup = "checkSem"
    /\ pcSetup' = SetupNext(pcSetup, bin_sem)
    /\ UNCHANGED << pcPrint, pcIsr, running, semaphore, val, volt, hardware,
                    isrLocals, serial, history, audit,
                    boots, restarts >>

\* line 103
SetupDiag ==
    /\ LoopRuns /\ pcSetup = "diag"
    /\ serial' = Append(serial, TextLine("error"))
    /\ pcSetup' = SetupNext(pcSetup, bin_sem)
    /\ UNCHANGED << pcPrint, pcIsr, running, semaphore, val, volt, hardware,
                    isrLocals, history, audit,
                    boots, restarts >>

\* line 104: ESP.restart does not return; the chip resets and boots again
SetupRestart ==
    /\ LoopRuns /\ pcSetup = "restart"
    /\ pcSetup' = "begin" /\ pcPrint' = "none" /\ pcIsr' = "idle"
    /\ running' = "loop"
    /\ bin_sem' = NULL /\ semCount' = 0
    /\ val' = 0 /\ volt' = [m |-> 0, e |-> 0]
    /\ led' = 0 /\ pinOutput' = FALSE
    /\ timer' = NULL /\ isrAttached' = FALSE
    /\ alarmValue' = 0 /\ alarmEnabled' = FALSE
    /\ pin_state' = 0 /\ task_woken' = FALSE
    /\ nFired' = 0 /\ nGives' = 0 /\ written' = << >> /\ valBy' = 0
    /\ takeK' = 0 /\ wokenBy' = 0 /\ gaveWaiter' = FALSE /\ readBy' = 0
    /\ printedBy' = << >> /\ nTakes' = 0 /\ keptUp' = TRUE
    /\ prevTakeK' = 0 /\ firedAtRead' = 0 /\ yielded' = FALSE /\ nReads' = 0
    /\ boots' = boots + 1 /\ restarts' = restarts + 1
    /\ UNCHANGED << serial, nSemFail >>

\* lines 109-116: the new task is ready at the top of its loop and, having
\* the higher priority, takes the core from its creator at once
SetupCreateTask ==
    /\ LoopRuns /\ pcSetup = "createTask"
    /\ pcPrint' = "take"
    /\ running' = IF PrintPriority > Priority(running) THEN "print" ELSE running
    /\ pcSetup' = SetupNext(pcSetup, bin_sem)
    /\ UNCHANGED << pcIsr, semaphore, val, volt, hardware, isrLocals, serial,
                    history, audit,
                    boots, restarts >>

\* line 119
SetupPinMode ==
    /\ LoopRuns /\ pcSetup = "pinMode"
    /\ pinOutput' = TRUE
    /\ pcSetup' = SetupNext(pcSetup, bin_sem)
    /\ UNCHANGED << pcPrint, pcIsr, running, semaphore, val, volt, led, timer,
                    isrAttached, alarmValue, alarmEnabled, isrLocals, serial,
                    history, audit,
                    boots, restarts >>

\* line 122
SetupTimerBegin ==
    /\ LoopRuns /\ pcSetup = "timerBegin"
    /\ timer' = "timer0"
    /\ pcSetup' = SetupNext(pcSetup, bin_sem)
    /\ UNCHANGED << pcPrint, pcIsr, running, semaphore, val, volt, led,
                    pinOutput, isrAttached, alarmValue, alarmEnabled, isrLocals,
                    serial, history, audit,
                    boots, restarts >>

\* line 125
SetupAttach ==
    /\ LoopRuns /\ pcSetup = "attach"
    /\ isrAttached' = TRUE
    /\ pcSetup' = SetupNext(pcSetup, bin_sem)
    /\ UNCHANGED << pcPrint, pcIsr, running, semaphore, val, volt, led,
                    pinOutput, timer, alarmValue, alarmEnabled, isrLocals,
                    serial, history, audit,
                    boots, restarts >>

\* line 128
SetupAlarmWrite ==
    /\ LoopRuns /\ pcSetup = "alarmWrite"
    /\ alarmValue' = timer_max_count
    /\ pcSetup' = SetupNext(pcSetup, bin_sem)
    /\ UNCHANGED << pcPrint, pcIsr, running, semaphore, val, volt, led,
                    pinOutput, timer, isrAttached, alarmEnabled, isrLocals,
                    serial, history, audit,
                    boots, restarts >>

\* line 131
SetupAlarmEnable ==
    /\ LoopRuns /\ pcSetup = "alarmEnable"
    /\ alarmEnabled' = TRUE
    /\ pcSetup' = SetupNext(pcSetup, bin_sem)
    /\ UNCHANGED << pcPrint, pcIsr, running, semaphore, val, volt, led,
                    pinOutput, timer, isrAttached, alarmValue, isrLocals,
                    serial, history, audit,
                    boots, restarts >>

\* lines 137-140: loop has an empty body
Loop ==
    /\ LoopRuns /\ pcSetup = "loop"
    /\ UNCHANGED vars

\* ------------------------------------------------------------------ onTimer
\* the alarm expires and the CPU enters the ISR; line 46
TimerFire ==
    /\ alarmEnabled /\ isrAttached /\ pcIsr = "idle"
    /\ nFired < MaxFire
    /\ pcIsr' = IsrNext(pcIsr)
    /\ task_woken' = FALSE
    /\ nFired' = nFired + 1
    /\ gaveWaiter' = FALSE
    /\ yielded' = FALSE
    /\ keptUp' = (keptUp /\ pcPrint = "blocked")
    /\ UNCHANGED << pcSetup, pcPrint, running, semaphore, val, volt, hardware,
                    pin_state, serial, nGives, written, valBy, takeK, wokenBy,
                    readBy, printedBy, nTakes, prevTakeK, firedAtRead, nSemFail,
                    nReads, boots, restarts >>

\* line 49
IsrReadPin ==
    /\ pcIsr = "readPin"
    /\ pin_state' = led
    /\ pcIsr' = IsrNext(pcIsr)
    /\ UNCHANGED << pcSetup, pcPrint, running, semaphore, val, volt, hardware,
                    task_woken, serial, history, audit,
                    boots, restarts >>

\* line 50
IsrWritePin ==
    /\ pcIsr = "writePin"
    /\ led' = Negate(pin_state)
    /\ pcIsr' = IsrNext(pcIsr)
    /\ UNCHANGED << pcSetup, pcPrint, running, semaphore, val, volt, pinOutput,
                    timer, isrAttached, alarmValue, alarmEnabled, isrLocals,
                    serial, history, audit,
                    boots, restarts >>

\* line 53
IsrSample ==
    /\ pcIsr = "sample"
    /\ \E reading \in 0..MaxAdc :
          /\ val' = reading
          /\ written' = Append(written, reading)
    /\ valBy' = nFired
    /\ pcIsr' = IsrNext(pcIsr)
    /\ UNCHANGED << pcSetup, pcPrint, running, semaphore, volt, hardware,
                    isrLocals, serial, nFired, nGives, takeK, wokenBy,
                    gaveWaiter, readBy, printedBy, nTakes, keptUp, audit,
                    boots, restarts >>

\* line 56: when the give stores a message and a task waits for one, that
\* task becomes ready, and task_woken reports whether it outranks the task
\* the ISR interrupted
IsrGive ==
    /\ pcIsr = "give" /\ bin_sem # NULL /\ GiveCompletes(semCount)
    /\ semCount' = GiveFromISR(semCount)
    /\ IF semCount' # semCount /\ pcPrint = "blocked"
       THEN /\ pcPrint' = "woken"
            /\ task_woken' = (Priority("print") > Priority(running))
            /\ wokenBy' = nFired
            /\ gaveWaiter' = TRUE
       ELSE UNCHANGED << pcPrint, task_woken, wokenBy, gaveWaiter >>
    /\ nGives' = nGives + 1
    /\ pcIsr' = IsrNext(pcIsr)
    /\ UNCHANGED << pcSetup, running, bin_sem, val, volt, hardware, pin_state,
                    serial, nFired, written, valBy, takeK, readBy, printedBy,
                    nTakes, keptUp, audit,
                    boots, restarts >>

\* lines 63-66: portYIELD_FROM_ISR hands the core to the ready task of
\* highest priority when the ISR returns
IsrExit ==
    /\ pcIsr = "exit"
    /\ running' = IF task_woken THEN HighestReady(pcPrint, pcSetup)
                  ELSE running
    /\ yielded' = task_woken
    /\ pcIsr' = IsrNext(pcIsr)
    /\ UNCHANGED << pcSetup, pcPrint, semaphore, val, volt, hardware,
                    isrLocals, serial, history, prevTakeK, firedAtRead, nSemFail,
                    nReads, boots, restarts >>

\* -------------------------------------------------------------- printValues
PrintRuns == running = "print" /\ pcIsr = "idle"

\* line 78, the call: take the message, or block and leave the core
PrintTake ==
    /\ PrintRuns /\ pcPrint = "take" /\ bin_sem # NULL
    /\ IF TakeReady(semCount)
       THEN /\ semCount' = AfterTake(semCount)
            /\ pcPrint' = PrintNext("take")
            /\ takeK' = nGives
            /\ prevTakeK' = takeK
            /\ nTakes' = nTakes + 1
            /\ wokenBy' = 0
            /\ UNCHANGED running
       ELSE /\ pcPrint' = "blocked"
            /\ running' = HighestReady(pcPrint', pcSetup)
            /\ UNCHANGED << semCount, takeK, prevTakeK, nTakes, wokenBy >>
    /\ UNCHANGED << pcSetup, pcIsr, bin_sem, val, volt, hardware, isrLocals,
                    serial, nFired, nGives, written, valBy, gaveWaiter,
                    readBy, printedBy, keptUp, firedAtRead, yielded, nSemFail,
                    nReads, boots, restarts >>

\* line 78, the return after a wait: the woken task takes the message
PrintWake ==
    /\ PrintRuns /\ pcPrint = "woken"
    /\ IF TakeReady(semCount)
       THEN /\ semCount' = AfterTake(semCount)
            /\ pcPrint' = PrintNext("take")
            /\ takeK' = nGives
            /\ prevTakeK' = takeK
            /\ nTakes' = nTakes + 1
            /\ UNCHANGED running
       ELSE /\ pcPrint' = "blocked"
            /\ running' = HighestReady(pcPrint', pcSetup)
            /\ UNCHANGED << semCount, takeK, prevTakeK, nTakes >>
    /\ UNCHANGED << pcSetup, pcIsr, bin_sem, val, volt, hardware, isrLocals,
                    serial, nFired, nGives, written, valBy, wokenBy,
                    gaveWaiter, readBy, printedBy, keptUp, firedAtRead, yielded, nSemFail,
                    nReads, boots, restarts >>

\* variant: the read empties the slot
PrintReadClears ==
    /\ PrintRuns /\ pcPrint = "read"
    /\ volt' = ToVolt(val)
    /\ val' = 0
    /\ readBy' = valBy
    /\ firedAtRead' = nFired
    /\ nReads' = nReads + 1
    /\ pcPrint' = PrintNext(pcPrint)
    /\ UNCHANGED << pcSetup, pcIsr, running, semaphore, hardware,
                    isrLocals, serial, nFired, nGives, written, valBy, takeK,
                    wokenBy, gaveWaiter, printedBy, nTakes, keptUp, prevTakeK,
                    yielded, nSemFail, boots, restarts >>

\* line 79
PrintRead ==
    /\ PrintRuns /\ pcPrint = "read"
    /\ volt' = ToVolt(val)
    /\ readBy' = valBy
    /\ firedAtRead' = nFired
    /\ nReads' = nReads + 1
    /\ pcPrint' = PrintNext(pcPrint)
    /\ UNCHANGED << pcSetup, pcIsr, running, semaphore, val, hardware,
                    isrLocals, serial, nFired, nGives, written, valBy, takeK,
                    wokenBy, gaveWaiter, printedBy, nTakes, keptUp, prevTakeK,
                    yielded, nSemFail, boots, restarts >>

\* line 80
PrintLine ==
    /\ PrintRuns /\ pcPrint = "print"
    /\ serial' = Append(serial, VoltLine(volt))
    /\ printedBy' = Append(printedBy, readBy)
    /\ pcPrint' = PrintNext(pcPrint)
    /\ UNCHANGED << pcSetup, pcIsr, running, semaphore, val, volt, hardware,
                    isrLocals, nFired, nGives, written, valBy, takeK, wokenBy,
                    gaveWaiter, readBy, nTakes, keptUp, audit,
                    boots, restarts >>

\* ------------------------------------------------------------ specification
Next ==
    \/ SetupBegin \/ DelayExpires \/ SetupBanner \/ SetupCreateSem
    \/ SetupCheckSem \/ SetupDiag \/ SetupRestart \/ SetupCreateTask
    \/ SetupPinMode \/ SetupTimerBegin \/ SetupAttach \/ SetupAlarmWrite
    \/ SetupAlarmEnable \/ Loop
    \/ TimerFire \/ IsrReadPin \/ IsrWritePin \/ IsrSample \/ IsrGive
    \/ IsrExit
    \/ PrintTake \/ PrintWake \/ PrintRead \/ PrintLine

Spec == Init /\ [][Next]_vars

\* the steps of onTimer after its entry, and the steps of printValues
IsrStep == IsrReadPin \/ IsrWritePin \/ IsrSample \/ IsrGive \/ IsrExit
PrintStep == PrintTake \/ PrintWake \/ PrintRead \/ PrintLine

\* an ISR that has been entered runs on, and the scheduler keeps running the
\* task printValues while it is the ready task of highest priority
FairSpec == Spec /\ WF_vars(IsrStep) /\ WF_vars(PrintStep)

\* The conversion on its own: printValues has just returned from its first
\* xSemaphoreTake and val holds any raw value the claim covers; the task then
\* converts and prints it (lines 79-80).
ConvInit ==
    /\ pcSetup = "loop" /\ pcPrint = "read" /\ pcIsr = "idle"
    /\ running = "print"
    /\ bin_sem = "sem" /\ semCount = 0
    /\ val \in 0..MaxRaw /\ volt = [m |-> 0, e |-> 0]
    /\ led = 1 /\ pinOutput = TRUE
    /\ timer = "timer0" /\ isrAttached = TRUE
    /\ alarmValue = timer_max_count /\ alarmEnabled = TRUE
    /\ pin_state = 0 /\ task_woken = TRUE
    /\ serial = << TextLine("empty"), TextLine("banner") >>
    /\ nFired = 1 /\ nGives = 1 /\ written = << val >> /\ valBy = 1
    /\ takeK = 1 /\ wokenBy = 1 /\ gaveWaiter = TRUE /\ readBy = 0
    /\ printedBy = << >> /\ nTakes = 1 /\ keptUp = TRUE
    /\ prevTakeK = 0 /\ firedAtRead = 0 /\ yielded = TRUE /\ nSemFail = 0
    /\ nReads = 0
    /\ boots = 1 /\ restarts = 0

ConvNext == PrintRead \/ PrintLine

ConvSpec == ConvInit /\ [][ConvNext]_vars

\* ------------------------------------------------------------------ claims
\* the lines printValues printed
VoltLines == SelectSeq(serial, LAMBDA l : l.kind = "volt")

\* C1: the value printValues reads after a take satisfied by the give of
\* execution k was written by onTimer, by execution k or a later one
SlotIntegrity ==
    pcPrint = "print" =>
        /\ readBy >= 1 /\ readBy >= takeK /\ readBy <= Len(written)
        /\ volt = ToVolt(written[readBy])

\* the take returned on the second give and the read found the value of a
\* third execution
SlotIntegrityWitness ==
    pcPrint = "print" /\ takeK = 2 /\ readBy = 3

\* C2 as stated: a take that absorbs two gives is the only wake for them and
\* the value read then is the second execution's
CoalescingSecondValue ==
    takeK = prevTakeK + 2 =>
        /\ (nGives = takeK => semCount = 0)
        /\ (pcPrint = "print" => readBy = takeK)

\* C2 amended: a take that absorbs two gives is the only wake for them (the
\* semaphore stays empty until a third give) and the value read then is the
\* most recent one, the second execution's or a later one's, never the first's
CoalescingLatestValue ==
    takeK = prevTakeK + 2 =>
        /\ (nGives = takeK => semCount = 0)
        /\ (pcPrint = "print" =>
                /\ readBy >= takeK /\ readBy = firedAtRead
                /\ volt = ToVolt(written[readBy]))

\* two gives were absorbed by one take, the value of the second was read and
\* the consumer waits again
CoalescingWitness ==
    /\ takeK = prevTakeK + 2 /\ nGives = takeK /\ pcPrint = "blocked"
    /\ Len(printedBy) >= 1 /\ printedBy[Len(printedBy)] = takeK

\* C3 as stated: a consumer that was blocked when execution k gave reads the
\* value execution k wrote
WaiterReadsThatValue ==
    (pcPrint = "print" /\ wokenBy > 0) => readBy = wokenBy

\* C3 amended: a consumer that was blocked when execution k gave reads the
\* value of the latest execution that ran before the read: execution k's,
\* unless onTimer ran again between the give and the read
WaiterReadsLatestValue ==
    (pcPrint = "print" /\ wokenBy > 0) =>
        /\ readBy >= wokenBy /\ readBy = firedAtRead
        /\ volt = ToVolt(written[readBy])

\* the blocked consumer was woken by the second execution and read its value
WaiterWitness ==
    pcPrint = "print" /\ wokenBy = 2 /\ readBy = 2

\* C4: while every execution of onTimer starts with the consumer blocked in
\* xSemaphoreTake, the values written are printed once each, in order
ExactlyOnce ==
    keptUp =>
        /\ Len(printedBy) \in {nFired - 1, nFired}
        /\ Len(VoltLines) = Len(printedBy)
        /\ \A i \in 1..Len(printedBy) :
              /\ printedBy[i] = i
              /\ VoltLines[i] = VoltLine(ToVolt(written[i]))
        /\ (pcPrint = "blocked" /\ pcIsr = "idle") => Len(printedBy) = nFired

\* three samples were written and printed with the consumer keeping up
ExactlyOnceWitness ==
    keptUp /\ nFired = 3 /\ Len(printedBy) = 3 /\ pcPrint = "blocked"

\* C5: when timerAlarmEnable is called, and whenever the alarm is armed or
\* onTimer executes, the semaphore and the task printValues exist
BringUpOrder ==
    (pcSetup = "alarmEnable" \/ alarmEnabled \/ pcIsr # "idle" \/ nFired > 0)
        => (bin_sem # NULL /\ pcPrint # "none")

\* onTimer is about to give the semaphore
BringUpOrderWitness ==
    pcIsr = "give" /\ nFired = 1 /\ bin_sem # NULL /\ pcPrint = "blocked"

\* the number of diagnostic lines on Serial
ErrorLines == Len(SelectSeq(serial, LAMBDA l : l.kind = "error"))

\* setup stands between a failed xSemaphoreCreateBinary and ESP.restart
SemJustFailed(pcs) == pcSetup \in pcs /\ bin_sem = NULL

\* C6: a NULL bin_sem is followed by one diagnostic and one ESP.restart, and
\* while bin_sem is NULL no later bring-up step has run, onTimer has not
\* executed and printValues has not run
FatalPath ==
    /\ bin_sem = NULL =>
          /\ pcSetup \in {"begin", "delay", "banner", "createSem", "checkSem",
                          "diag", "restart"}
          /\ pcPrint = "none" /\ ~pinOutput /\ timer = NULL /\ ~isrAttached
          /\ alarmValue = 0 /\ ~alarmEnabled
          /\ pcIsr = "idle" /\ nFired = 0 /\ nTakes = 0
    /\ ErrorLines =
          nSemFail - (IF SemJustFailed({"checkSem", "diag"}) THEN 1 ELSE 0)
    /\ restarts =
          nSemFail -
             (IF SemJustFailed({"checkSem", "diag", "restart"}) THEN 1 ELSE 0)
    /\ boots = restarts + 1

\* the creation failed, the diagnostic was printed and the chip restarted
FatalPathWitness ==
    nSemFail = 1 /\ restarts = 1 /\ ErrorLines = 1 /\ pcSetup = "begin"

\* the level of the LED after the executions of onTimer so far
HeartbeatLevel ==
    pcIsr \notin {"readPin", "writePin"} => led = nFired % 2

\* C7: after N executions of onTimer the LED level has flipped N times,
\* whatever the consumer does, and only line 50 of onTimer changes it
Heartbeat ==
    /\ []HeartbeatLevel
    /\ [][led' # led => (pcIsr = "writePin" /\ pcIsr' = "sample")]_vars

\* three executions have toggled the LED while the consumer fell behind
HeartbeatWitness ==
    /\ nFired = 3 /\ pcIsr = "idle" /\ led = 1
    /\ pcPrint = "print" /\ semCount = 1

\* C8: bin_sem holds at most one signal: it is signalled exactly when a give
\* followed the last return of xSemaphoreTake, however many gives there
\* were, and a give on the signalled semaphore changes nothing
NoAccumulation ==
    /\ [](semCount \in 0..1 /\ semCount = IF nGives > takeK THEN 1 ELSE 0)
    /\ [][(pcIsr = "give" /\ semCount = 1) =>
              /\ semCount' = 1 /\ pcPrint' = pcPrint
              /\ task_woken' = task_woken /\ running' = running]_vars

\* two gives without a take in between left one signal
NoAccumulationWitness ==
    nGives = takeK + 2 /\ semCount = 1 /\ pcIsr = "idle"

\* every step of onTimer can be taken as soon as it is reached
IsrNeverWaits ==
    /\ pcIsr = "readPin"  => ENABLED IsrReadPin
    /\ pcIsr = "writePin" => ENABLED IsrWritePin
    /\ pcIsr = "sample"   => ENABLED IsrSample
    /\ pcIsr = "give"     => ENABLED IsrGive
    /\ pcIsr = "exit"     => ENABLED IsrExit

\* C9 as stated: onTimer never waits, and no task is ever suspended except
\* printValues in xSemaphoreTake
OnlyConsumerSuspends ==
    /\ IsrNeverWaits
    /\ LoopReady(pcSetup)

\* C9 amended: onTimer never waits; printValues is suspended only in
\* xSemaphoreTake on an empty semaphore, and the setup/loop task only in the
\* vTaskDelay of setup, before the semaphore, the task and the timer exist
ProducerNeverBlocked ==
    /\ IsrNeverWaits
    /\ pcPrint = "blocked" => semCount = 0
    /\ ~LoopReady(pcSetup) =>
          (bin_sem = NULL /\ pcPrint = "none" /\ ~alarmEnabled)

\* onTimer reached its give with the semaphore already signalled and the
\* consumer in the middle of an iteration
ProducerNeverBlockedWitness ==
    pcIsr = "exit" /\ nGives = takeK + 2 /\ pcPrint = "read"

\* C10: onTimer calls portYIELD_FROM_ISR exactly when its give unblocked the
\* waiting printValues, and whenever printValues is ready outside the ISR it
\* owns the core, so the setup/loop task takes no step before it
DeferredPreemption ==
    /\ pcIsr = "exit" => (task_woken <=> gaveWaiter)
    /\ (pcIsr = "idle" /\ nFired > 0) => (yielded <=> gaveWaiter)
    /\ (pcIsr = "idle" /\ PrintReady(pcPrint)) =>
          (running = "print" /\ ~ENABLED Loop)

\* the ISR woke the consumer while loop was running and yielded to it
DeferredPreemptionWitness ==
    /\ pcIsr = "idle" /\ yielded /\ pcPrint = "woken" /\ running = "print"
    /\ pcSetup = "loop"

\* C11: printValues leaves its wait only through a give (there is no
\* timeout), every give is followed by a print of the value of that execution
\* or a later one, and a signalled semaphore is eventually taken
HandoffLiveness ==
    /\ [][(pcPrint = "blocked" /\ pcPrint' # "blocked") =>
              (pcIsr = "give" /\ semCount' = 1)]_vars
    /\ \A k \in 1..MaxFire :
          (nGives >= k) ~>
              (Len(printedBy) > 0 /\ printedBy[Len(printedBy)] >= k)
    /\ (semCount = 1) ~> (semCount = 0)

\* the last execution explored has given and its value has been printed
HandoffLivenessWitness ==
    /\ nGives = MaxFire /\ Len(printedBy) > 0
    /\ printedBy[Len(printedBy)] = MaxFire /\ pcPrint = "blocked"

\* C12: the line printed for a raw value is raw * 3.3 / 4096 with three
\* fractional digits, that is a multiple of 0.001 at most 0.0005 away from
\* it; raw 0 prints 0.000 and raw 4096 prints 3.300
ConversionCorrect ==
    (pcPrint = "take" /\ Len(VoltLines) = 1) =>
        LET t == VoltLines[1].th
            raw == written[1]
        IN  /\ 4096 * t - 3300 * raw \in -2048..2048
            /\ raw = 0 => t = 0
            /\ raw = 4096 => t = 3300

\* the raw value 4096 has been printed as 3.300
ConversionWitness ==
    /\ pcPrint = "take" /\ written = << 4096 >>
    /\ VoltLines = << [kind |-> "volt", th |-> 3300] >>

\* C13: onTimer gives only after it has stored its sample, and printValues
\* reads val once per return of xSemaphoreTake and only after that return,
\* never between a finished iteration and the next return
HappensBefore ==
    /\ nGives <= Len(written) /\ valBy = Len(written)
    /\ pcIsr = "give" => valBy = nFired
    /\ nReads <= nTakes /\ nTakes <= nReads + 1
    /\ pcPrint \in {"take", "blocked", "woken", "print"} => nReads = nTakes
    /\ pcPrint = "read" => nTakes = nReads + 1
    /\ pcPrint = "print" => readBy >= takeK

\* the second iteration of printValues has returned from its take and is
\* about to read val, while a third execution has stored its sample
HappensBeforeWitness ==
    pcPrint = "read" /\ nTakes = 2 /\ nReads = 1 /\ pcIsr = "give" /\ nFired = 3

\* the shared state: the sample slot, the LED level and the semaphore
shared == << val, led, bin_sem, semCount >>

\* C14: only line 53 of onTimer changes val; a step of printValues leaves
\* val, the LED and the hardware alone and at most takes the signal from the
\* semaphore; once setup has returned, the setup/loop task stays in loop and
\* every change of the shared state is a step of onTimer or of printValues
SingleWriter ==
    [][ /\ val' # val => pcIsr = "sample"
        /\ (pcIsr = "idle" /\ pcIsr' = "idle" /\ pcPrint # "none"
               /\ pcPrint' # pcPrint) =>
              /\ val' = val /\ led' = led /\ bin_sem' = bin_sem
              /\ hardware' = hardware
              /\ semCount' \in {semCount, semCount - 1}
              /\ semCount' >= 0
        /\ pcSetup = "loop" =>
              /\ pcSetup' = "loop"
              /\ shared' # shared =>
                    \/ pcIsr # "idle"
                    \/ (running = "print" /\ pcPrint' # pcPrint)
      ]_vars

\* after bring-up, a sample other than 0 has been read and printed and is
\* still in val, and the semaphore has been taken
SingleWriterWitness ==
    /\ pcSetup = "loop" /\ pcPrint = "blocked" /\ pcIsr = "idle"
    /\ Len(printedBy) = nFired /\ nFired >= 1
    /\ val # 0 /\ val = written[nFired] /\ semCount = 0

\* C15: once created, printValues is always at its wait, its read or its
\* print, never gone; after a print it is back at xSemaphoreTake; every
\* iteration it starts is finished, and every pending signal brings one
\* more line
ConsumerNeverExits ==
    /\ [](pcPrint \in {"none", "take", "blocked", "woken", "read", "print"})
    /\ [][pcPrint # "none" => pcPrint' # "none"]_vars
    /\ [][(pcPrint = "print" /\ pcPrint' # "print") => pcPrint' = "take"]_vars
    /\ (pcPrint \in {"read", "print"}) ~> (pcPrint = "take")
    /\ \A n \in 0..MaxFire :
          (Len(printedBy) = n /\ semCount = 1) ~> (Len(printedBy) > n)

\* printValues is back at xSemaphoreTake after its second line
ConsumerNeverExitsWitness ==
    pcPrint = "take" /\ Len(printedBy) = 2 /\ nTakes = 2

\* C16: xSemaphoreTake has never returned more often than onTimer has
\* given, a signal still pending included, and no more lines were printed
\* than takes returned
NoSpuriousWake ==
    /\ nTakes + semCount <= nGives
    /\ Len(VoltLines) <= nTakes
    /\ nReads <= nTakes

\* three gives, of which two were merged into one wake
NoSpuriousWakeWitness ==
    nGives = 3 /\ nTakes = 2 /\ Len(VoltLines) = 2 /\ pcPrint = "blocked"

\* C17: the semaphore is created without a signal, so until onTimer has
\* executed printValues only waits: it has not returned from its take, read
\* val or printed; whatever it reads or prints was written by onTimer
NoOutputBeforeSample ==
    /\ (pcSetup = "checkSem" /\ bin_sem # NULL) => semCount = 0
    /\ nFired = 0 =>
          /\ pcPrint \in {"none", "take", "blocked"}
          /\ nTakes = 0 /\ nReads = 0 /\ Len(VoltLines) = 0
    /\ nReads > 0 => readBy >= 1
    /\ \A i \in 1..Len(printedBy) : printedBy[i] >= 1

\* the alarm is armed, onTimer has not executed yet and printValues waits
NoOutputBeforeSampleWitness ==
    nFired = 0 /\ alarmEnabled /\ pcPrint = "blocked" /\ Len(VoltLines) = 0

\* C18: printValues blocks in xSemaphoreTake before setup takes its next
\* step towards arming the timer, so the first execution of onTimer finds it
\* waiting, gets task_woken true from its give and calls portYIELD_FROM_ISR
FirstInterruptFindsWaiter ==
    /\ (LoopRuns /\ pcSetup \in {"pinMode", "timerBegin", "attach",
                                  "alarmWrite", "alarmEnable"})
          => pcPrint = "blocked"
    /\ alarmEnabled => pcPrint # "none"
    /\ (nFired = 1 /\ pcIsr \in {"readPin", "writePin", "sample", "give"})
          => pcPrint = "blocked"
    /\ (nFired = 1 /\ pcIsr = "exit")
          => (task_woken /\ gaveWaiter /\ pcPrint = "woken")
    /\ (nFired = 1 /\ pcIsr = "idle") => yielded

\* the first execution has given and is about to yield
FirstInterruptWitness ==
    nFired = 1 /\ pcIsr = "exit" /\ task_woken /\ pcPrint = "woken"

\* C19: every line printed is the value of an execution of onTimer, and the
\* executions printed never go back
MonotonicDelivery ==
    /\ Len(VoltLines) = Len(printedBy)
    /\ \A i \in 1..Len(printedBy) :
          /\ printedBy[i] \in 1..nFired
          /\ VoltLines[i] = VoltLine(ToVolt(written[printedBy[i]]))
    /\ \A i \in 1..(Len(printedBy) - 1) : printedBy[i] <= printedBy[i + 1]

\* the timer fired between the first return of the take and the read: the
\* second sample was printed for the first signal and again for the second
MonotonicDeliveryWitness ==
    printedBy = << 2, 2 >> /\ nTakes = 2

====
